---- MODULE Spec2Model ----
(***************************************************************************)
(* A model of examples/generate_xlsx.py: the three workbook generators     *)
(* (create_financial_model, create_data_analysis,                          *)
(* create_inventory_tracking), the module-level imports and main().        *)
(*                                                                         *)
(* A workbook is a sequence of sheet names, maps from <<sheet, row, col>>   *)
(* to the value, the font and the fill of a cell, a set of merged ranges   *)
(* and a set of column widths.  A step of a generator is one statement     *)
(* outside a loop or one iteration of an outermost loop; a generator is    *)
(* the sequence of steps its source makes, each with the openpyxl calls it *)
(* makes in order, loops unrolled by the operators that mirror them.       *)
(***************************************************************************)
EXTENDS Integers, Sequences, FiniteSets, TLC

VARIABLES
    run,        \* 1: first process, 2: second process (fresh interpreter)
    mode,       \* "main": the script is run; "caller": the generators are called directly
    installed,  \* whether openpyxl can be imported in this process
    pc,         \* position of the process
    gi,         \* index of the next generator main() calls inside its try block
    todo,       \* generators a direct caller has not called yet
    cur,        \* the generator being executed ("" outside a generator)
    ip,         \* index of the next call of the running generator
    wb,         \* the generator's local Workbook
    trans_data, \* create_inventory_tracking's local list
    rng,        \* state of the module-global PRNG of `random`
    cwd,        \* process working directory
    start_dir,  \* the directory the process was started in
    out,        \* lines printed so far (tags)
    files,      \* the output directory: file name -> saved workbook
    prev,       \* the files the first process left behind: state and cell contents
    recalc      \* last evaluation of a CurrentInventory status formula

vars == <<run, mode, installed, pc, gi, todo, cur, ip, wb, trans_data, rng, cwd, start_dir,
          out, files, prev, recalc>>

(***************************************************************************)
(* Bounds of the model.                                                    *)
(***************************************************************************)
\* number of distinct OS-entropy seeds a fresh interpreter may start with
NumEntropy == 2
\* stock levels and reorder points tried by the recalculation: -1..MaxStock
MaxStock == 2
\* critical-level fractions tried by the recalculation: n/4 for n in -1..MaxQuarter
MaxQuarter == 5

(***************************************************************************)
(* Cell values: numbers (n/d), strings, formulas (token sequences).        *)
(***************************************************************************)
N(n) == [k |-> "num", n |-> n, d |-> 1]
Q(n, d) == [k |-> "num", n |-> n, d |-> d]
S(s) == [k |-> "str", s |-> s]
F(toks) == [k |-> "formula", toks |-> toks]
None == [k |-> "none"]

\* formula tokens: literal text, a cell reference, a bounded range, whole
\* columns, a quoted string literal
T(s) == [t |-> "txt", s |-> s]
R(sh, c, r) == [t |-> "ref", sheet |-> sh, col |-> c, row |-> r]
Rg(sh, c1, r1, c2, r2) == [t |-> "range", sheet |-> sh, col |-> c1, row |-> r1, col2 |-> c2, row2 |-> r2]
Cols(sh, c1, c2) == [t |-> "cols", sheet |-> sh, col |-> c1, col2 |-> c2]
L(s) == [t |-> "lit", s |-> s]

\* Python truthiness of a value (line 72: `value and ...`, line 163: `if label`)
Truthy(v) ==
    CASE v.k = "str" -> v.s # ""
      [] v.k = "num" -> v.n # 0
      [] v.k = "formula" -> TRUE
      [] OTHER -> FALSE

Letters == <<"A", "B", "C", "D", "E", "F", "G", "H", "I", "J">>
get_column_letter(c) == Letters[c]
ColIndex(letter) == CHOOSE c \in 1..Len(Letters) : Letters[c] = letter

(***************************************************************************)
(* Styles.                                                                 *)
(***************************************************************************)
Font(bold, size) == [bold |-> bold, size |-> size]
\* Font(bold=True): no explicit size
SizeUnset == 0
DefaultFont == Font(FALSE, SizeUnset)
NoFill == [fill_type |-> "none", color |-> ""]
SolidGrey == [fill_type |-> "solid", color |-> "D3D3D3"]

(***************************************************************************)
(* The calls a generator makes.                                            *)
(***************************************************************************)
NewWorkbook == [op |-> "new"]
RemoveActive == [op |-> "remove_active"]
CreateSheet(name) == [op |-> "create_sheet", sheet |-> name]
\* ws.cell(row, column, value) / ws['A1'] = value; loop and k name the
\* population loop and the descriptor index the write belongs to
SetCell(sh, r, c, v, loop, k) ==
    [op |-> "value", sheet |-> sh, row |-> r, col |-> c, val |-> v, loop |-> loop, k |-> k]
Assign(sh, r, c, v) == SetCell(sh, r, c, v, "", 0)
SetFont(sh, r, c, f) == [op |-> "font", sheet |-> sh, row |-> r, col |-> c, font |-> f]
SetFill(sh, r, c, f) == [op |-> "fill", sheet |-> sh, row |-> r, col |-> c, fill |-> f]
Merge(sh, r1, c1, r2, c2) ==
    [op |-> "merge", sheet |-> sh, row |-> r1, col |-> c1, row2 |-> r2, col2 |-> c2]
SetWidth(sh, c, w) == [op |-> "width", sheet |-> sh, col |-> c, width |-> w]
Save(file) == [op |-> "save", file |-> file]
Created(file) == [op |-> "print", file |-> file]

RECURSIVE Flatten(_)
Flatten(ss) == IF ss = <<>> THEN <<>> ELSE Head(ss) \o Flatten(Tail(ss))

\* one step of a generator and the calls it makes, in order
Step(kind, calls) == [kind |-> kind, calls |-> calls]
\* statements outside a loop: one step each
Each(calls) == [i \in 1..Len(calls) |-> Step(calls[i].op, <<calls[i]>>)]

\* RowCells with the row taken from a 1-based descriptor count
RowCells_OffByOne(sh, data, start, loop) ==
    [k \in 1..Len(data) |->
        Step("row", [j \in 1..Len(data[k]) |->
                        SetCell(sh, start + k, j, data[k][j], loop, k - 1)])]

\* for i, row in enumerate(data, start): for j, value in enumerate(row, 1):
\*     ws.cell(row=i, column=j, value=value)
RowCells(sh, data, start, loop) ==
    [k \in 1..Len(data) |->
        Step("row", [j \in 1..Len(data[k]) |->
                        SetCell(sh, start + (k - 1), j, data[k][j], loop, k - 1)])]

\* the same loop with `if j == 1: cell.font = label_font`
LabelledRowCells(sh, data, start, loop, label_font) ==
    [k \in 1..Len(data) |->
        Step("row", Flatten([j \in 1..Len(data[k]) |->
            <<SetCell(sh, start + (k - 1), j, data[k][j], loop, k - 1)>>
            \o (IF j = 1 THEN <<SetFont(sh, start + (k - 1), 1, label_font)>> ELSE <<>>)]))]

\* PairCells without the write of column 2
PairCells_LabelOnly(sh, pairs, start, loop, label_font) ==
    [k \in 1..Len(pairs) |->
        Step("row", << SetCell(sh, start + (k - 1), 1, pairs[k][1], loop, k - 1),
                       SetFont(sh, start + (k - 1), 1, label_font) >>)]

\* for i, (label, formula) in enumerate(pairs, start):
\*     ws.cell(row=i, column=1, value=label).font = label_font
\*     ws.cell(row=i, column=2, value=formula)
PairCells(sh, pairs, start, loop, label_font) ==
    [k \in 1..Len(pairs) |->
        Step("row", << SetCell(sh, start + (k - 1), 1, pairs[k][1], loop, k - 1),
                       SetFont(sh, start + (k - 1), 1, label_font),
                       SetCell(sh, start + (k - 1), 2, pairs[k][2], loop, k - 1) >>)]

\* for i, header in enumerate(headers, start=1):
\*     cell = ws.cell(row=1, column=i, value=header); cell.font = ...; cell.fill = ...
HeaderCells(sh, headers, header_font, header_fill) ==
    [i \in 1..Len(headers) |->
        Step("header", << Assign(sh, 1, i, S(headers[i])),
                          SetFont(sh, 1, i, header_font),
                          SetFill(sh, 1, i, header_fill) >>)]

\* StyleHeaderRow over a cell list that misses the last header
StyleHeaderRow_OneShort(sh, r, ncols, header_font, header_fill) ==
    [c \in 1..(ncols - 1) |->
        Step("style", << SetFont(sh, r, c, header_font), SetFill(sh, r, c, header_fill) >>)]

\* for cell in ['A8', 'B8', ...]: ws[cell].font = header_font; ws[cell].fill = header_fill
StyleHeaderRow(sh, r, ncols, header_font, header_fill) ==
    [c \in 1..ncols |->
        Step("style", << SetFont(sh, r, c, header_font), SetFill(sh, r, c, header_fill) >>)]

\* for sheet in sheets: for col in range(1, n): sheet.column_dimensions[...].width = w
Widths(sheets, n, w) ==
    [s \in 1..Len(sheets) |->
        Step("widths", [c \in 1..(n - 1) |-> SetWidth(sheets[s], c, w)])]

(***************************************************************************)
(* create_financial_model                                                  *)
(***************************************************************************)
fm_header_font == Font(TRUE, 12)
fm_header_fill == SolidGrey
fm_label_font == Font(TRUE, SizeUnset)

fm_params_data == <<
    <<S("Annual Interest Rate"), Q(5, 100), S("5% annual rate")>>,
    <<S("Loan Term (Years)"), N(30), S("30-year mortgage")>>,
    <<S("Loan Principal"), N(500000), S("$500,000 loan")>>,
    <<S(""), S(""), S("")>>,
    <<S("Investment Parameters"), S(""), S("")>>,
    <<S("Investment Annual Rate"), Q(8, 100), S("8% annual return")>>,
    <<S("Investment Period (Years)"), N(20), S("20-year investment")>>,
    <<S("Monthly Contribution"), N(1000), S("$1,000/month")>>,
    <<S("Initial Investment"), N(10000), S("$10,000 initial")>>,
    <<S(""), S(""), S("")>>,
    <<S("NPV/IRR Parameters"), S(""), S("")>>,
    <<S("Discount Rate"), Q(10, 100), S("10% discount rate")>>,
    <<S("Number of Periods"), N(10), S("10 periods")>>,
    <<S("Payment Amount"), N(5000), S("$5,000 payment")>>,
    <<S("Present Value"), N(40000), S("$40,000 PV")>>,
    <<S("Future Value"), N(0), S("$0 FV")>> >>

fm_params_start == 2

\* lines 62-73: a section-header row writes column 1 only and merges A:C
fm_ParamsRow(row, i, k) ==
    IF row[1] \in {S("Investment Parameters"), S("NPV/IRR Parameters")}
    THEN << SetCell("LoanParameters", i, 1, row[1], "fm.params_data", k),
            SetFont("LoanParameters", i, 1, Font(TRUE, 12)),
            Merge("LoanParameters", i, 1, i, 3) >>
    ELSE Flatten([j \in 1..Len(row) |->
            <<SetCell("LoanParameters", i, j, row[j], "fm.params_data", k)>>
            \o (IF j = 1 /\ Truthy(row[j]) /\ row[j] # S("")
                THEN <<SetFont("LoanParameters", i, 1, fm_label_font)>> ELSE <<>>)])

\* fm_ParamsLoop enumerating from row 1
fm_ParamsLoop_FromRow1 ==
    [k \in 1..Len(fm_params_data) |->
        Step("row", fm_ParamsRow(fm_params_data[k], k, k - 1))]

fm_ParamsLoop ==
    [k \in 1..Len(fm_params_data) |->
        Step("row", fm_ParamsRow(fm_params_data[k], fm_params_start + (k - 1), k - 1))]

cash_flow_data == <<
    <<N(0), N(0), N(0 - 100000)>>,
    <<N(1), N(15000), N(15000)>>,
    <<N(2), N(20000), N(20000)>>,
    <<N(3), N(25000), N(25000)>>,
    <<N(4), N(30000), N(30000)>>,
    <<N(5), N(35000), N(35000)>>,
    <<N(6), N(40000), N(40000)>>,
    <<N(7), N(45000), N(45000)>>,
    <<N(8), N(50000), N(50000)>>,
    <<N(9), N(55000), N(55000)>>,
    <<N(10), N(60000), N(60000)>> >>

loan_calc_formulas == <<
    <<S("Monthly Payment"),
      F(<<T("=PMT("), R("LoanParameters", "B", 2), T("/12, "), R("LoanParameters", "B", 3),
          T("*12, -"), R("LoanParameters", "B", 4), T(")")>>)>>,
    <<S("Total Amount Paid"),
      F(<<T("="), R("", "B", 2), T("*"), R("LoanParameters", "B", 3), T("*12")>>)>>,
    <<S("Total Interest Paid"),
      F(<<T("="), R("", "B", 3), T("-"), R("LoanParameters", "B", 4)>>)>>,
    <<S("Effective Annual Rate"),
      F(<<T("=RATE("), R("LoanParameters", "B", 14), T(", -"), R("LoanParameters", "B", 15),
          T(", "), R("LoanParameters", "B", 16), T(", -"), R("LoanParameters", "B", 17),
          T(")*12")>>)>> >>

investment_formulas == <<
    <<S("Future Value (Lump Sum)"),
      F(<<T("=FV("), R("LoanParameters", "B", 7), T(", "), R("LoanParameters", "B", 8),
          T(", 0, -"), R("LoanParameters", "B", 10), T(")")>>)>>,
    <<S("Future Value (With Contributions)"),
      F(<<T("=FV("), R("LoanParameters", "B", 7), T("/12, "), R("LoanParameters", "B", 8),
          T("*12, -"), R("LoanParameters", "B", 9), T(", -"), R("LoanParameters", "B", 10),
          T(")")>>)>>,
    <<S("Present Value Needed"),
      F(<<T("=PV("), R("LoanParameters", "B", 7), T(", "), R("LoanParameters", "B", 8),
          T(", 0, -1000000)")>>)>>,
    <<S("Monthly Contribution Needed"),
      F(<<T("=PMT("), R("LoanParameters", "B", 7), T("/12, "), R("LoanParameters", "B", 8),
          T("*12, -"), R("LoanParameters", "B", 10), T(", 1000000)")>>)>>,
    <<S(""), S("")>>,
    <<S("Project Analysis"), S("")>>,
    <<S("Net Present Value"),
      F(<<T("=NPV("), R("LoanParameters", "B", 13), T(", "), Rg("CashFlows", "B", 3, "B", 12),
          T(")")>>)>>,
    <<S("Internal Rate of Return"),
      F(<<T("=IRR("), Rg("CashFlows", "C", 2, "C", 12), T(")")>>)>>,
    <<S("Profitability Index"),
      F(<<T("=1 + "), R("", "B", 8), T("/ABS("), R("CashFlows", "C", 2), T(")")>>)>> >>

\* lines 160-166: `.font = label_font if label else None`; an assigned None
\* is stored as a font with nothing set
fm_InvestmentRow(row, i, k) ==
    IF Len(row) = 2
    THEN << SetCell("InvestmentAnalysis", i, 1, row[1], "fm.investment_formulas", k),
            SetFont("InvestmentAnalysis", i, 1,
                    IF Truthy(row[1]) THEN fm_label_font ELSE DefaultFont),
            SetCell("InvestmentAnalysis", i, 2, row[2], "fm.investment_formulas", k) >>
    ELSE IF Len(row) = 1
    THEN << SetCell("InvestmentAnalysis", i, 1, row[1], "fm.investment_formulas", k),
            SetFont("InvestmentAnalysis", i, 1, Font(TRUE, 12)) >>
    ELSE <<>>

fm_InvestmentLoop ==
    [k \in 1..Len(investment_formulas) |->
        Step("row", fm_InvestmentRow(investment_formulas[k], 2 + (k - 1), k - 1))]

sensitivity_data == <<
    <<Q(5, 100), F(<<T("=NPV(0.05, "), Rg("CashFlows", "B", 3, "B", 12), T(")")>>),
      F(<<T("=IF("), R("", "B", 15), T(">0, \"Accept\", \"Reject\")")>>)>>,
    <<Q(10, 100), F(<<T("=NPV(0.10, "), Rg("CashFlows", "B", 3, "B", 12), T(")")>>),
      F(<<T("=IF("), R("", "B", 16), T(">0, \"Accept\", \"Reject\")")>>)>>,
    <<Q(15, 100), F(<<T("=NPV(0.15, "), Rg("CashFlows", "B", 3, "B", 12), T(")")>>),
      F(<<T("=IF("), R("", "B", 17), T(">0, \"Accept\", \"Reject\")")>>)>>,
    <<Q(20, 100), F(<<T("=NPV(0.20, "), Rg("CashFlows", "B", 3, "B", 12), T(")")>>),
      F(<<T("=IF("), R("", "B", 18), T(">0, \"Accept\", \"Reject\")")>>)>> >>

fm_sheets == <<"LoanParameters", "CashFlows", "LoanCalculations", "InvestmentAnalysis">>

create_financial_model ==
    Each(<<NewWorkbook, RemoveActive>>)
    \o Each([s \in 1..Len(fm_sheets) |-> CreateSheet(fm_sheets[s])])
    \* LoanParameters
    \o Each(<< Assign("LoanParameters", 1, 1, S("Loan Parameters")),
          SetFont("LoanParameters", 1, 1, Font(TRUE, 14)),
          Merge("LoanParameters", 1, 1, 1, 2) >>)
    \o fm_ParamsLoop
    \* CashFlows
    \o Each(<< Assign("CashFlows", 1, 1, S("Period")),
          Assign("CashFlows", 1, 2, S("Cash Flow (NPV)")),
          Assign("CashFlows", 1, 3, S("Cash Flow (IRR)")) >>)
    \o StyleHeaderRow("CashFlows", 1, 3, fm_header_font, fm_header_fill)
    \o RowCells("CashFlows", cash_flow_data, 2, "fm.cash_flow_data")
    \* LoanCalculations
    \o Each(<< Assign("LoanCalculations", 1, 1, S("Loan Analysis")),
          SetFont("LoanCalculations", 1, 1, Font(TRUE, 14)),
          Merge("LoanCalculations", 1, 1, 1, 2) >>)
    \o PairCells("LoanCalculations", loan_calc_formulas, 2, "fm.loan_calc_formulas", fm_label_font)
    \o Each(<< Assign("LoanCalculations", 7, 1, S("Amortization Schedule")),
          SetFont("LoanCalculations", 7, 1, Font(TRUE, 12)),
          Merge("LoanCalculations", 7, 1, 7, 4),
          Assign("LoanCalculations", 8, 1, S("Month")),
          Assign("LoanCalculations", 8, 2, S("Principal")),
          Assign("LoanCalculations", 8, 3, S("Interest")),
          Assign("LoanCalculations", 8, 4, S("Balance")) >>)
    \o StyleHeaderRow("LoanCalculations", 8, 4, fm_header_font, fm_header_fill)
    \o Each(<< Assign("LoanCalculations", 9, 1, N(1)),
          Assign("LoanCalculations", 9, 2, F(<<T("="), R("", "B", 2), T("-"), R("", "C", 9)>>)),
          Assign("LoanCalculations", 9, 3,
                 F(<<T("="), R("LoanParameters", "B", 4), T("*"), R("LoanParameters", "B", 2), T("/12")>>)),
          Assign("LoanCalculations", 9, 4,
                 F(<<T("="), R("LoanParameters", "B", 4), T("-"), R("", "B", 9)>>)),
          Assign("LoanCalculations", 10, 1, N(2)),
          Assign("LoanCalculations", 10, 2, F(<<T("="), R("", "B", 2), T("-"), R("", "C", 10)>>)),
          Assign("LoanCalculations", 10, 3,
                 F(<<T("="), R("", "D", 9), T("*"), R("LoanParameters", "B", 2), T("/12")>>)),
          Assign("LoanCalculations", 10, 4, F(<<T("="), R("", "D", 9), T("-"), R("", "B", 10)>>)) >>)
    \* InvestmentAnalysis
    \o Each(<< Assign("InvestmentAnalysis", 1, 1, S("Investment Growth")),
          SetFont("InvestmentAnalysis", 1, 1, Font(TRUE, 14)),
          Merge("InvestmentAnalysis", 1, 1, 1, 2) >>)
    \o fm_InvestmentLoop
    \o Each(<< Assign("InvestmentAnalysis", 13, 1, S("Sensitivity Analysis")),
          SetFont("InvestmentAnalysis", 13, 1, Font(TRUE, 12)),
          Merge("InvestmentAnalysis", 13, 1, 13, 3),
          Assign("InvestmentAnalysis", 14, 1, S("Discount Rate")),
          Assign("InvestmentAnalysis", 14, 2, S("NPV")),
          Assign("InvestmentAnalysis", 14, 3, S("Decision")) >>)
    \o StyleHeaderRow("InvestmentAnalysis", 14, 3, fm_header_font, fm_header_fill)
    \o RowCells("InvestmentAnalysis", sensitivity_data, 15, "fm.sensitivity_data")
    \o Widths(fm_sheets, 5, 20)
    \o Each(<< Save("financial-model.xlsx"), Created("financial-model.xlsx") >>)

(***************************************************************************)
(* The module-global PRNG of `random`: a deterministic function of its     *)
(* state.  A fresh interpreter seeds it from OS entropy.                   *)
(***************************************************************************)
Entropy == {1000 + e : e \in 1..NumEntropy}
NextRng(x) == (75 * x + 74) % 65537
Seeded(n) == n % 65537
RandInt(x, lo, hi) == lo + (NextRng(x) % (hi - lo + 1))
Choice(x, seq) == seq[1 + (NextRng(x) % Len(seq))]

(***************************************************************************)
(* Formatting helpers of the generated rows.                               *)
(***************************************************************************)
\* format spec 03d
Pad3(n) == IF n < 10 THEN "00" \o ToString(n) ELSE IF n < 100 THEN "0" \o ToString(n) ELSE ToString(n)
Pad2(n) == IF n < 10 THEN "0" \o ToString(n) ELSE ToString(n)
\* month lengths of 2024
MonthLengths == <<31, 29, 31, 30, 31, 30, 31, 31, 30, 31, 30, 31>>
RECURSIVE MonthDay(_, _)
MonthDay(days, m) ==
    IF days < MonthLengths[m] THEN <<m, days + 1>> ELSE MonthDay(days - MonthLengths[m], m + 1)
\* (datetime(2024, 1, 1) + timedelta(days=days)).strftime('%m/%d/%Y')
DateStr(days) ==
    LET md == MonthDay(days, 1) IN Pad2(md[1]) \o "/" \o Pad2(md[2]) \o "/2024"

\* values drawn from the PRNG when the write is executed
DrawInt(lo, hi) == [k |-> "randint", lo |-> lo, hi |-> hi]
DrawChoice(seq) == [k |-> "choice", seq |-> seq]
\* trans_data[i][j], read when the write is executed
TransValue(i, j) == [k |-> "trans", i |-> i, j |-> j]

(***************************************************************************)
(* create_data_analysis                                                    *)
(***************************************************************************)
da_header_font == Font(TRUE, SizeUnset)
da_header_fill == SolidGrey
da_label_font == Font(TRUE, SizeUnset)

da_headers == <<"Sales Amount", "Region", "Product", "Date", "Customer ID">>
regions == <<"North", "South", "East", "West">>
da_products == <<"Widget A", "Widget B", "Widget C">>
da_seed == 42
\* range(2, 102)
da_first_row == 2
da_end_row == 102

\* lines 233-238
da_RawDataLoop ==
    [n \in 1..(da_end_row - da_first_row) |->
        LET i == da_first_row + (n - 1)
        IN Step("row",
           << SetCell("RawData", i, 1, DrawInt(800, 4500), "da.raw_rows", n - 1),
              SetCell("RawData", i, 2, DrawChoice(regions), "da.raw_rows", n - 1),
              SetCell("RawData", i, 3, DrawChoice(da_products), "da.raw_rows", n - 1),
              SetCell("RawData", i, 4, S(DateStr(i - 2)), "da.raw_rows", n - 1),
              SetCell("RawData", i, 5, S("C" \o Pad3(i - 1)), "da.raw_rows", n - 1) >>)]

da_params_data == <<
    <<S("Confidence Level"), Q(95, 100), S("95% confidence")>>,
    <<S("Significance Threshold"), Q(5, 100), S("5% significance")>>,
    <<S("Moving Average Window"), N(7), S("7-day window")>>,
    <<S("Outlier Threshold (σ)"), N(3), S("3 standard deviations")>>,
    <<S("Minimum Sample Size"), N(30), S("Min 30 samples")>>,
    <<S("Top N Items"), N(10), S("Top 10 analysis")>>,
    <<S("Sales Target"), N(2500), S("$2,500 target")>> >>

RawA == Rg("RawData", "A", 2, "A", 101)
RawB == Rg("RawData", "B", 2, "B", 101)

basic_stats == <<
    <<S("Mean Sales"), F(<<T("=AVERAGE("), RawA, T(")")>>)>>,
    <<S("Median Sales"), F(<<T("=MEDIAN("), RawA, T(")")>>)>>,
    <<S("Standard Deviation"), F(<<T("=STDEV("), RawA, T(")")>>)>>,
    <<S("Variance"), F(<<T("=VAR("), RawA, T(")")>>)>>,
    <<S("Min Sales"), F(<<T("=MIN("), RawA, T(")")>>)>>,
    <<S("Max Sales"), F(<<T("=MAX("), RawA, T(")")>>)>>,
    <<S("Range"), F(<<T("="), R("", "B", 7), T("-"), R("", "B", 6)>>)>>,
    <<S("Count"), F(<<T("=COUNT("), RawA, T(")")>>)>>,
    <<S("Count Above Target"),
      F(<<T("=COUNTIF("), RawA, T(", \">\"&"), R("Parameters", "B", 8), T(")")>>)>> >>

percentiles == <<
    <<S("25th Percentile"), F(<<T("=PERCENTILE("), RawA, T(", 0.25)")>>)>>,
    <<S("50th Percentile"), F(<<T("=PERCENTILE("), RawA, T(", 0.50)")>>)>>,
    <<S("75th Percentile"), F(<<T("=PERCENTILE("), RawA, T(", 0.75)")>>)>>,
    <<S("90th Percentile"), F(<<T("=PERCENTILE("), RawA, T(", 0.90)")>>)>>,
    <<S("Interquartile Range"), F(<<T("="), R("", "B", 15), T("-"), R("", "B", 13)>>)>> >>

\* lines 313-317
da_RegionLoop ==
    [k \in 1..Len(regions) |->
        LET i == 26 + (k - 1)
            region == regions[k]
        IN Step("row",
           << SetCell("Analysis", i, 1, S(region), "da.regions", k - 1),
              SetCell("Analysis", i, 2,
                      F(<<T("=COUNTIF("), RawB, T(", "), L(region), T(")")>>), "da.regions", k - 1),
              SetCell("Analysis", i, 3,
                      F(<<T("=AVERAGEIF("), RawB, T(", "), L(region), T(", "), RawA, T(")")>>),
                      "da.regions", k - 1),
              SetCell("Analysis", i, 4,
                      F(<<T("=SUMIF("), RawB, T(", "), L(region), T(", "), RawA, T(")")>>),
                      "da.regions", k - 1) >>)]

summary_data == <<
    <<S("Total Sales"), F(<<T("=SUM("), RawA, T(")")>>)>>,
    <<S("Average Daily Sales"), F(<<T("="), R("Analysis", "B", 2)>>)>>,
    <<S("Best Performing Region"),
      F(<<T("=INDEX("), Rg("Analysis", "A", 26, "A", 29), T(", MATCH(MAX("),
          Rg("Analysis", "D", 26, "D", 29), T("), "), Rg("Analysis", "D", 26, "D", 29),
          T(", 0))")>>)>>,
    <<S("Sales Above Target (%)"),
      F(<<T("="), R("Analysis", "B", 10), T("/"), R("Analysis", "B", 9), T("*100")>>)>>,
    <<S(""), S("")>>,
    <<S("Data Quality Report"), S("")>>,
    <<S("Total Records"), F(<<T("="), R("Analysis", "B", 9)>>)>>,
    <<S("Data Completeness (%)"), F(<<T("=COUNTA("), RawA, T(")/100*100")>>)>>,
    <<S(""), S("")>>,
    <<S("Statistical Tests"), S("")>>,
    <<S("Sample Size Adequate"),
      F(<<T("=IF("), R("Analysis", "B", 9), T(">="), R("Parameters", "B", 6),
          T(", \"Yes\", \"No\")")>>)>> >>

\* lines 338-348 and 542-552: the label/formula loop of Summary and Reports
SectionedPairRow(sh, row, i, k, loop, sections, label_font) ==
    IF Len(row) = 2
    THEN <<SetCell(sh, i, 1, row[1], loop, k)>>
         \o (IF Truthy(row[1]) /\ row[1] \notin sections
             THEN <<SetFont(sh, i, 1, label_font)>>
             ELSE IF row[1] \in sections
             THEN <<SetFont(sh, i, 1, Font(TRUE, 12))>>
             ELSE <<>>)
         \o <<SetCell(sh, i, 2, row[2], loop, k)>>
    ELSE IF Len(row) = 1
    THEN <<SetCell(sh, i, 1, row[1], loop, k), SetFont(sh, i, 1, Font(TRUE, 12))>>
    ELSE <<>>

\* SectionedPairCells with the empty descriptors dropped before the loop
SectionedPairCells_SkipBlank(sh, data, start, loop, sections, label_font) ==
    LET kept == SelectSeq(data, LAMBDA row : Truthy(row[1]))
    IN [k \in 1..Len(kept) |->
           Step("row", SectionedPairRow(sh, kept[k], start + (k - 1), k - 1, loop, sections,
                                        label_font))]

SectionedPairCells(sh, data, start, loop, sections, label_font) ==
    [k \in 1..Len(data) |->
        Step("row", SectionedPairRow(sh, data[k], start + (k - 1), k - 1, loop, sections,
                                     label_font))]

da_sheets == <<"RawData", "Parameters", "Analysis", "Summary">>

create_data_analysis ==
    Each(<<NewWorkbook, RemoveActive>>)
    \o Each([s \in 1..Len(da_sheets) |-> CreateSheet(da_sheets[s])])
    \* RawData
    \o HeaderCells("RawData", da_headers, da_header_font, da_header_fill)
    \o Each(<<[op |-> "seed", seed |-> da_seed]>>)
    \o da_RawDataLoop
    \* Parameters
    \o Each(<< Assign("Parameters", 1, 1, S("Analysis Parameters")),
          SetFont("Parameters", 1, 1, Font(TRUE, 14)),
          Merge("Parameters", 1, 1, 1, 2) >>)
    \o LabelledRowCells("Parameters", da_params_data, 2, "da.params_data", da_label_font)
    \* Analysis
    \o Each(<< Assign("Analysis", 1, 1, S("Basic Statistics")),
          SetFont("Analysis", 1, 1, Font(TRUE, 14)),
          Merge("Analysis", 1, 1, 1, 2) >>)
    \o PairCells("Analysis", basic_stats, 2, "da.basic_stats", da_label_font)
    \o Each(<< Assign("Analysis", 12, 1, S("Percentile Analysis")),
          SetFont("Analysis", 12, 1, Font(TRUE, 12)),
          Merge("Analysis", 12, 1, 12, 2) >>)
    \o PairCells("Analysis", percentiles, 13, "da.percentiles", da_label_font)
    \o Each(<< Assign("Analysis", 24, 1, S("Regional Analysis")),
          SetFont("Analysis", 24, 1, Font(TRUE, 12)),
          Merge("Analysis", 24, 1, 24, 4),
          Assign("Analysis", 25, 1, S("Region")),
          Assign("Analysis", 25, 2, S("Count")),
          Assign("Analysis", 25, 3, S("Average")),
          Assign("Analysis", 25, 4, S("Total")) >>)
    \o StyleHeaderRow("Analysis", 25, 4, da_header_font, da_header_fill)
    \o da_RegionLoop
    \* Summary
    \o Each(<< Assign("Summary", 1, 1, S("Executive Summary")),
          SetFont("Summary", 1, 1, Font(TRUE, 14)),
          Merge("Summary", 1, 1, 1, 2) >>)
    \o SectionedPairCells("Summary", summary_data, 2, "da.summary_data",
                          {S("Data Quality Report"), S("Statistical Tests")}, da_label_font)
    \o Widths(da_sheets, 6, 18)
    \o Each(<< Save("data-analysis.xlsx"), Created("data-analysis.xlsx") >>)

(***************************************************************************)
(* create_inventory_tracking                                               *)
(***************************************************************************)
it_header_font == Font(TRUE, SizeUnset)
it_header_fill == SolidGrey
it_label_font == Font(TRUE, SizeUnset)

product_headers == <<"SKU", "Product Name", "Unit Cost", "Lead Time (days)",
                     "Safety Stock", "Annual Demand", "Supplier", "Category">>

product_data == <<
    <<S("SKU001"), S("Widget Alpha"), Q(2550, 100), N(7), N(50), N(2400), S("Supplier A"), S("Electronics")>>,
    <<S("SKU002"), S("Widget Beta"), Q(4500, 100), N(14), N(30), N(1800), S("Supplier B"), S("Electronics")>>,
    <<S("SKU003"), S("Widget Gamma"), Q(1275, 100), N(3), N(100), N(5000), S("Supplier A"), S("Accessories")>>,
    <<S("SKU004"), S("Widget Delta"), Q(8999, 100), N(21), N(20), N(600), S("Supplier C"), S("Premium")>>,
    <<S("SKU005"), S("Widget Epsilon"), Q(525, 100), N(5), N(200), N(10000), S("Supplier B"), S("Consumables")>>,
    <<S("SKU006"), S("Widget Zeta"), Q(15000, 100), N(30), N(10), N(200), S("Supplier D"), S("Premium")>>,
    <<S("SKU007"), S("Widget Eta"), Q(3500, 100), N(10), N(40), N(1500), S("Supplier A"), S("Electronics")>>,
    <<S("SKU008"), S("Widget Theta"), Q(1850, 100), N(7), N(75), N(3000), S("Supplier C"), S("Accessories")>>,
    <<S("SKU009"), S("Widget Iota"), Q(6200, 100), N(14), N(25), N(900), S("Supplier B"), S("Electronics")>>,
    <<S("SKU010"), S("Widget Kappa"), Q(899, 100), N(3), N(150), N(7500), S("Supplier A"), S("Consumables")>> >>

trans_headers == <<"Date", "Product SKU", "Transaction Type", "Quantity",
                   "Unit Price", "Reference Number", "Notes">>

it_skus == <<"SKU001", "SKU002", "SKU003", "SKU004", "SKU005">>
\* range(50)
it_random_count == 50

\* lines 419-428: the row appended for one SKU, drawn from PRNG state x
InitialStockRow(sku, x) ==
    << S(DateStr(0)), S(sku), S("IN"), N(RandInt(x, 100, 300)), N(0),
       S("PO-2024-001"), S("Initial stock") >>

\* lines 431-446: the row appended by iteration i, drawn from PRNG state x
RandomTransactionRow(i, x) ==
    LET sku == Choice(x, it_skus)
        x1 == NextRng(x)
        trans_type == Choice(x1, <<"IN", "OUT", "OUT", "OUT">>)
        x2 == NextRng(x1)
        quantity == IF trans_type = "OUT" THEN RandInt(x2, 5, 50) ELSE RandInt(x2, 50, 200)
        ref == IF trans_type = "OUT"
               THEN "SO-2024-" \o Pad3(i + 1)
               ELSE "PO-2024-" \o Pad3((i \div 10) + 2)
    IN << S(DateStr(i \div 2)), S(sku), S(trans_type), N(quantity), N(0), S(ref),
          S(IF trans_type = "OUT" THEN "Customer order" ELSE "Restock") >>

\* lines 448-450: trans_data holds one row per initial SKU and per iteration
it_TransLoop ==
    [k \in 1..(Len(it_skus) + it_random_count) |->
        Step("row", [j \in 1..Len(trans_headers) |->
            SetCell("Transactions", 2 + (k - 1), j, TransValue(k, j), "it.trans_data", k - 1)])]

settings_data == <<
    <<S("Lead Time Multiplier"), Q(15, 10), S("Safety factor for lead time")>>,
    <<S("Ordering Cost per Order"), N(50), S("Fixed cost per order")>>,
    <<S("Holding Cost Rate (annual %)"), Q(20, 100), S("20% annual holding cost")>>,
    <<S("Service Level Target"), Q(95, 100), S("95% service level")>>,
    <<S("Review Period (days)"), N(7), S("Weekly review")>>,
    <<S("Min Order Quantity"), N(10), S("Minimum order size")>>,
    <<S("Max Order Quantity"), N(1000), S("Maximum order size")>>,
    <<S("Critical Stock Level (%)"), Q(25, 100), S("25% of reorder point")>>,
    <<S("Overstock Threshold (days)"), N(90), S("90 days of supply")>> >>

inv_headers == <<"SKU", "Current Stock", "Reorder Point", "Status", "Stock Value",
                 "Days of Supply", "Turnover", "ABC Class", "Risk", "EOQ">>

\* SUMIFS(Transactions!D:D, Transactions!B:B, A{i}, Transactions!C:C, "<type>"
SumIfs(i, type) ==
    << T("SUMIFS("), Cols("Transactions", "D", "D"), T(", "), Cols("Transactions", "B", "B"),
       T(", "), R("", "A", i), T(", "), Cols("Transactions", "C", "C"), T(", "), L(type) >>

\* VLOOKUP(A{i}, Products!A:<last>, <n>, FALSE)
VLookup(i, last, n) ==
    << T("VLOOKUP("), R("", "A", i), T(", "), Cols("Products", "A", last),
       T(", " \o ToString(n) \o ", FALSE)") >>

\* StatusFormula reading the setting one row up
StatusFormula_WrongSetting(i) ==
    F(<< T("=IF("), R("", "B", i), T("<="), R("", "C", i), T("*"), R("Settings", "B", 8),
         T(", "), L("CRITICAL"), T(", IF("), R("", "B", i), T("<="), R("", "C", i),
         T(", "), L("REORDER"), T(", "), L("OK"), T("))") >>)

\* line 489
StatusFormula(i) ==
    F(<< T("=IF("), R("", "B", i), T("<="), R("", "C", i), T("*"), R("Settings", "B", 9),
         T(", "), L("CRITICAL"), T(", IF("), R("", "B", i), T("<="), R("", "C", i),
         T(", "), L("REORDER"), T(", "), L("OK"), T("))") >>)

\* lines 485-495
it_InventoryRow(i, sku, k) ==
    << SetCell("CurrentInventory", i, 1, S(sku), "it.inventory", k),
       SetCell("CurrentInventory", i, 2,
               F(<<T("=")>> \o SumIfs(i, "IN") \o <<T(") - ")>> \o SumIfs(i, "OUT") \o <<T(")")>>),
               "it.inventory", k),
       SetCell("CurrentInventory", i, 3,
               F(<<T("=")>> \o VLookup(i, "E", 4) \o <<T(" * "), R("Settings", "B", 2), T(" * (")>>
                 \o VLookup(i, "F", 6) \o <<T("/365) + ")>> \o VLookup(i, "E", 5)),
               "it.inventory", k),
       SetCell("CurrentInventory", i, 4, StatusFormula(i), "it.inventory", k),
       SetCell("CurrentInventory", i, 5,
               F(<<T("="), R("", "B", i), T(" * ")>> \o VLookup(i, "C", 3)),
               "it.inventory", k),
       SetCell("CurrentInventory", i, 6,
               F(<<T("=IF(")>> \o SumIfs(i, "OUT") \o <<T(")/30>0, "), R("", "B", i), T("/(")>>
                 \o SumIfs(i, "OUT") \o <<T(")/30), 999)")>>),
               "it.inventory", k),
       SetCell("CurrentInventory", i, 7,
               F(<<T("=IF("), R("", "B", i), T(">0, ")>> \o SumIfs(i, "OUT")
                 \o <<T(")/"), R("", "B", i), T("*365/30, 0)")>>),
               "it.inventory", k),
       SetCell("CurrentInventory", i, 8,
               F(<<T("=IF("), R("", "E", i), T("/SUM("), Cols("", "E", "E"), T(")>0.7, "), L("A"),
                   T(", IF("), R("", "E", i), T("/SUM("), Cols("", "E", "E"), T(")>0.2, "), L("B"),
                   T(", "), L("C"), T("))")>>),
               "it.inventory", k),
       SetCell("CurrentInventory", i, 9,
               F(<<T("=IF("), R("", "B", i), T("<"), R("", "C", i), T("*0.5, "), L("HIGH"),
                   T(", IF("), R("", "B", i), T("<"), R("", "C", i), T(", "), L("MEDIUM"),
                   T(", "), L("LOW"), T("))")>>),
               "it.inventory", k),
       SetCell("CurrentInventory", i, 10,
               F(<<T("=SQRT(2*")>> \o VLookup(i, "F", 6) \o <<T("*"), R("Settings", "B", 3), T("/(")>>
                 \o VLookup(i, "C", 3) \o <<T("*"), R("Settings", "B", 4), T("))")>>),
               "it.inventory", k) >>

it_InventoryLoop ==
    [k \in 1..Len(it_skus) |-> Step("row", it_InventoryRow(2 + (k - 1), it_skus[k], k - 1))]

alert_headers == <<"Alert Type", "Product SKU", "Message", "Priority", "Action Required", "Date">>
alert_types == <<"Stock Level", "Reorder Point", "Overstock", "Slow Moving">>

\* IF(COUNTIF(CurrentInventory!D:D, "<status>")>0, INDEX(..., MATCH(...)), "")
AlertSku(status) ==
    F(<< T("=IF(COUNTIF("), Cols("CurrentInventory", "D", "D"), T(", "), L(status),
         T(")>0, INDEX("), Cols("CurrentInventory", "A", "A"), T(", MATCH("), L(status),
         T(", "), Cols("CurrentInventory", "D", "D"), T(", 0)), \"\")") >>)

\* lines 512-522
it_AlertRow(i, alert_type, k) ==
    <<SetCell("Alerts", i, 1, S(alert_type), "it.alert_types", k)>>
    \o (IF alert_type = "Stock Level"
        THEN << SetCell("Alerts", i, 2, AlertSku("CRITICAL"), "it.alert_types", k),
                SetCell("Alerts", i, 3,
                        F(<<T("=IF("), R("", "B", 2), T("<>\"\", "),
                            L("Critical stock level - immediate reorder required"), T(", \"\")")>>),
                        "it.alert_types", k),
                SetCell("Alerts", i, 4,
                        F(<<T("=IF("), R("", "B", 2), T("<>\"\", "), L("HIGH"), T(", \"\")")>>),
                        "it.alert_types", k) >>
        ELSE IF alert_type = "Reorder Point"
        THEN << SetCell("Alerts", i, 2, AlertSku("REORDER"), "it.alert_types", k),
                SetCell("Alerts", i, 3,
                        F(<<T("=IF("), R("", "B", 3), T("<>\"\", "),
                            L("Stock at reorder point - place order"), T(", \"\")")>>),
                        "it.alert_types", k),
                SetCell("Alerts", i, 4,
                        F(<<T("=IF("), R("", "B", 3), T("<>\"\", "), L("MEDIUM"), T(", \"\")")>>),
                        "it.alert_types", k) >>
        ELSE <<>>)

it_AlertLoop ==
    [k \in 1..Len(alert_types) |->
        Step("row", it_AlertRow(2 + (k - 1), alert_types[k], k - 1))]

report_data == <<
    <<S("Total Inventory Value"), F(<<T("=SUM("), Cols("CurrentInventory", "E", "E"), T(")")>>)>>,
    <<S("Number of SKUs"), F(<<T("=COUNTA("), Cols("CurrentInventory", "A", "A"), T(")-1")>>)>>,
    <<S("Items Below Reorder Point"),
      F(<<T("=COUNTIF("), Cols("CurrentInventory", "D", "D"), T(", "), L("REORDER"),
          T(") + COUNTIF("), Cols("CurrentInventory", "D", "D"), T(", "), L("CRITICAL"), T(")")>>)>>,
    <<S("Items Out of Stock"), F(<<T("=COUNTIF("), Cols("CurrentInventory", "B", "B"), T(", 0)")>>)>>,
    <<S("Critical Stock Items"),
      F(<<T("=COUNTIF("), Cols("CurrentInventory", "D", "D"), T(", "), L("CRITICAL"), T(")")>>)>>,
    <<S(""), S("")>>,
    <<S("Performance Metrics"), S("")>>,
    <<S("Average Turnover Rate"), F(<<T("=AVERAGE("), Cols("CurrentInventory", "G", "G"), T(")")>>)>>,
    <<S("Fill Rate (%)"), F(<<T("=(1-"), R("", "B", 5), T("/"), R("", "B", 3), T(")*100")>>)>>,
    <<S("Service Level (%)"),
      F(<<T("=COUNTIF("), Cols("CurrentInventory", "D", "D"), T(", "), L("OK"), T(")/"),
          R("", "B", 3), T("*100")>>)>> >>

it_sheets == <<"Products", "Transactions", "Settings", "CurrentInventory", "Alerts", "Reports">>

create_inventory_tracking ==
    Each(<<NewWorkbook, RemoveActive>>)
    \o Each([s \in 1..Len(it_sheets) |-> CreateSheet(it_sheets[s])])
    \* Products
    \o HeaderCells("Products", product_headers, it_header_font, it_header_fill)
    \o RowCells("Products", product_data, 2, "it.product_data")
    \* Transactions
    \o HeaderCells("Transactions", trans_headers, it_header_font, it_header_fill)
    \o Each([k \in 1..Len(it_skus) |-> [op |-> "append_initial", sku |-> it_skus[k]]])
    \o Each([n \in 1..it_random_count |-> [op |-> "append_random", i |-> n - 1]])
    \o it_TransLoop
    \* Settings
    \o Each(<< Assign("Settings", 1, 1, S("Inventory Settings")),
          SetFont("Settings", 1, 1, Font(TRUE, 14)),
          Merge("Settings", 1, 1, 1, 2) >>)
    \o LabelledRowCells("Settings", settings_data, 2, "it.settings_data", it_label_font)
    \* CurrentInventory
    \o HeaderCells("CurrentInventory", inv_headers, it_header_font, it_header_fill)
    \o it_InventoryLoop
    \* Alerts
    \o Each([c \in 1..Len(alert_headers) |-> Assign("Alerts", 1, c, S(alert_headers[c]))])
    \o StyleHeaderRow("Alerts", 1, 6, it_header_font, it_header_fill)
    \o it_AlertLoop
    \* Reports
    \o Each(<< Assign("Reports", 1, 1, S("Inventory Dashboard")),
          SetFont("Reports", 1, 1, Font(TRUE, 14)),
          Merge("Reports", 1, 1, 1, 2) >>)
    \o SectionedPairCells("Reports", report_data, 2, "it.report_data",
                          {S("Performance Metrics")}, it_label_font)
    \o Widths(it_sheets, 11, 15)
    \o Each(<< Save("inventory-tracking.xlsx"), Created("inventory-tracking.xlsx") >>)

(***************************************************************************)
(* The generators main() calls, in the order of its try block.             *)
(***************************************************************************)
Generators == <<"create_financial_model", "create_data_analysis", "create_inventory_tracking">>

Prog(g) ==
    CASE g = "create_financial_model" -> create_financial_model
      [] g = "create_data_analysis" -> create_data_analysis
      [] g = "create_inventory_tracking" -> create_inventory_tracking
      [] OTHER -> <<>>

FileNames == {"financial-model.xlsx", "data-analysis.xlsx", "inventory-tracking.xlsx"}

(***************************************************************************)
(* Workbooks and the output directory.                                     *)
(***************************************************************************)
NoValues == [a \in {} |-> None]
NoFonts == [a \in {} |-> DefaultFont]
NoFills == [a \in {} |-> NoFill]
NoRows == [a \in {} |-> {}]
\* values, fonts, fills: <<sheet, row, col>> -> what the cell holds (fonts and
\* fills only where one was assigned); rows: <<sheet, row>> -> the row
\* descriptors <<loop, index>> whose writes went into the row
NoWorkbook ==
    [sheets |-> <<>>, values |-> NoValues, fonts |-> NoFonts, fills |-> NoFills,
     rows |-> NoRows, merges |-> {}, widths |-> {}, saved |-> FALSE]
Absent == [state |-> "absent", dir |-> "", wb |-> NoWorkbook]
CleanDir == [f \in FileNames |-> Absent]

Put(m, a, v) == [x \in (DOMAIN m) \cup {a} |-> IF x = a THEN v ELSE m[x]]
ValueAt(w, sh, r, c) == IF <<sh, r, c>> \in DOMAIN w.values THEN w.values[<<sh, r, c>>] ELSE None
FontAt(w, sh, r, c) == IF <<sh, r, c>> \in DOMAIN w.fonts THEN w.fonts[<<sh, r, c>>] ELSE DefaultFont
FillAt(w, sh, r, c) == IF <<sh, r, c>> \in DOMAIN w.fills THEN w.fills[<<sh, r, c>>] ELSE NoFill
WritersOf(w, sh, r) == IF <<sh, r>> \in DOMAIN w.rows THEN w.rows[<<sh, r>>] ELSE {}

\* what a process leaves behind for the comparison with the next one: the
\* state of each file and its cell contents
Left(dir) == [f \in FileNames |-> [state |-> dir[f].state, values |-> dir[f].wb.values]]

NoRecalc == [row |-> 0, b |-> 0, c |-> 0, quarters |-> 0, result |-> ""]

Init ==
    /\ run = 1
    /\ mode = "main"
    /\ installed \in BOOLEAN
    /\ pc = "import"
    /\ gi = 1
    /\ todo = {}
    /\ cur = ""
    /\ ip = 1
    /\ wb = NoWorkbook
    /\ trans_data = <<>>
    /\ rng \in Entropy
    /\ cwd \in {"elsewhere", "script_dir"}
    /\ start_dir = cwd
    /\ out = <<>>
    /\ files = CleanDir
    /\ prev = Left(CleanDir)
    /\ recalc = NoRecalc

(***************************************************************************)
(* Process start and main().                                               *)
(***************************************************************************)
\* lines 7-12: the imports at module level; an ImportError here is uncaught
ImportModule ==
    /\ pc = "import"
    /\ pc' = IF installed THEN "main" ELSE "crashed"
    /\ UNCHANGED <<run, mode, installed, gi, todo, cur, ip, wb, trans_data, rng, cwd, start_dir,
                   out, files, prev, recalc>>

\* lines 565-574: banner, then the availability check
MainCheck ==
    /\ pc = "main"
    /\ IF installed
       THEN /\ out' = out \o <<"banner">>
            /\ pc' = "chdir"
       ELSE /\ out' = out \o <<"banner", "not installed", "pip install openpyxl">>
            /\ pc' = "exit"
    /\ UNCHANGED <<run, mode, installed, gi, todo, cur, ip, wb, trans_data, rng, cwd, start_dir,
                   files, prev, recalc>>

\* Chdir that leaves the working directory as the caller set it
Chdir_Skipped ==
    /\ pc = "chdir"
    /\ cwd' = cwd
    /\ pc' = "try"
    /\ gi' = 1
    /\ UNCHANGED <<start_dir, run, mode, installed, todo, cur, ip, wb, trans_data, rng,
                   out, files, prev, recalc>>

\* lines 577-578
Chdir ==
    /\ pc = "chdir"
    /\ cwd' = "script_dir"
    /\ pc' = "try"
    /\ gi' = 1
    /\ UNCHANGED <<start_dir, run, mode, installed, todo, cur, ip, wb, trans_data, rng,
                   out, files, prev, recalc>>

\* lines 582-584: the next call of the try block
CallGenerator ==
    /\ pc = "try"
    /\ gi <= Len(Generators)
    /\ cur' = Generators[gi]
    /\ ip' = 1
    /\ pc' = "gen"
    /\ UNCHANGED <<run, mode, installed, gi, todo, wb, trans_data, rng, cwd, start_dir,
                   out, files, prev, recalc>>

\* lines 586-593
ReportSuccess ==
    /\ pc = "try"
    /\ gi > Len(Generators)
    /\ out' = out \o <<"success", "usage">>
    /\ pc' = "exit"
    /\ UNCHANGED <<run, mode, installed, gi, todo, cur, ip, wb, trans_data, rng, cwd, start_dir,
                   files, prev, recalc>>

\* HandleException that swallows the error and goes on with the next generator
HandleException_Resumes ==
    /\ pc = "except"
    /\ out' = out \o <<"error", "traceback">>
    /\ pc' = "try"
    /\ gi' = gi + 1
    /\ UNCHANGED <<run, mode, installed, todo, cur, ip, wb, trans_data, rng, cwd, start_dir,
                   files, prev, recalc>>

\* lines 595-598
HandleException ==
    /\ pc = "except"
    /\ out' = out \o <<"error", "traceback">>
    /\ pc' = "exit"
    /\ UNCHANGED <<run, mode, installed, gi, todo, cur, ip, wb, trans_data, rng, cwd, start_dir,
                   files, prev, recalc>>

(***************************************************************************)
(* The steps of a generator.                                               *)
(***************************************************************************)
InGenerator == pc = "gen" /\ ip <= Len(Prog(cur))
Stmt == Prog(cur)[ip]
Op == Stmt.calls[1]
Advance ==
    /\ ip' = ip + 1
    /\ UNCHANGED <<run, mode, installed, pc, gi, todo, cur, cwd, start_dir, prev, recalc>>

\* wb = Workbook(): one default sheet, which is the active one
WorkbookNew ==
    /\ InGenerator /\ Stmt.kind = "new"
    /\ wb' = [NoWorkbook EXCEPT !.sheets = <<"Sheet">>]
    /\ Advance
    /\ UNCHANGED <<trans_data, rng, out, files>>

\* WorkbookRemoveActive that keeps the default sheet
WorkbookRemoveActive_Kept ==
    /\ InGenerator /\ Stmt.kind = "remove_active"
    /\ wb' = wb
    /\ Advance
    /\ UNCHANGED <<trans_data, rng, out, files>>

\* wb.remove(wb.active)
WorkbookRemoveActive ==
    /\ InGenerator /\ Stmt.kind = "remove_active"
    /\ wb' = [wb EXCEPT !.sheets = Tail(wb.sheets)]
    /\ Advance
    /\ UNCHANGED <<trans_data, rng, out, files>>

\* wb.create_sheet(name)
WorkbookCreateSheet ==
    /\ InGenerator /\ Stmt.kind = "create_sheet"
    /\ wb' = [wb EXCEPT !.sheets = Append(wb.sheets, Op.sheet)]
    /\ Advance
    /\ UNCHANGED <<trans_data, rng, out, files>>

\* the value a write stores: literals as they are, random.randint(lo, hi) and
\* random.choice(seq) from the PRNG state x, trans_data[i][j] from the list td
Resolve(v, x, td) ==
    CASE v.k = "randint" -> N(RandInt(x, v.lo, v.hi))
      [] v.k = "choice" -> S(Choice(x, v.seq))
      [] v.k = "trans" -> td[v.i][v.j]
      [] OTHER -> v
Draws(v) == v.k \in {"randint", "choice"}

\* ws.cell(row, column, value) and ws['A1'] = value
CellWrite(w, c, x, td) ==
    [w EXCEPT !.values = Put(@, <<c.sheet, c.row, c.col>>, Resolve(c.val, x, td)),
              !.rows = IF c.loop = "" THEN @
                       ELSE Put(@, <<c.sheet, c.row>>,
                                WritersOf(w, c.sheet, c.row) \cup {<<c.loop, c.k>>})]

\* cell.font = font; reading the cell creates it
CellFont(w, c) ==
    [w EXCEPT !.values = Put(@, <<c.sheet, c.row, c.col>>, ValueAt(w, c.sheet, c.row, c.col)),
              !.fonts = Put(@, <<c.sheet, c.row, c.col>>, c.font)]

\* cell.fill = fill
CellFill(w, c) ==
    [w EXCEPT !.values = Put(@, <<c.sheet, c.row, c.col>>, ValueAt(w, c.sheet, c.row, c.col)),
              !.fills = Put(@, <<c.sheet, c.row, c.col>>, c.fill)]

\* ws.merge_cells('A1:B1')
MergeRange(w, c) ==
    [w EXCEPT !.merges = @ \cup {<<c.sheet, c.row, c.col, c.row2, c.col2>>}]

\* sheet.column_dimensions[get_column_letter(col)].width = w
ColumnWidth(w, c) ==
    [w EXCEPT !.widths = {x \in @ : ~(x[1] = c.sheet /\ x[2] = get_column_letter(c.col))}
                         \cup {<<c.sheet, get_column_letter(c.col), c.width>>}]

\* one openpyxl call on workbook w with PRNG state x
Call(w, c, x, td) ==
    CASE c.op = "value" -> CellWrite(w, c, x, td)
      [] c.op = "font" -> CellFont(w, c)
      [] c.op = "fill" -> CellFill(w, c)
      [] c.op = "merge" -> MergeRange(w, c)
      [] c.op = "width" -> ColumnWidth(w, c)
      [] OTHER -> w
RngAfter(c, x) == IF c.op = "value" /\ Draws(c.val) THEN NextRng(x) ELSE x

\* the calls of a step, in order
RECURSIVE Calls(_, _, _, _)
Calls(w, calls, x, td) ==
    IF calls = <<>> THEN [wb |-> w, rng |-> x]
    ELSE Calls(Call(w, Head(calls), x, td), Tail(calls), RngAfter(Head(calls), x), td)

\* the effect of a step on the workbook and the PRNG
Execute ==
    /\ LET after == Calls(wb, Stmt.calls, rng, trans_data)
       IN /\ wb' = after.wb
          /\ rng' = after.rng
    /\ Advance
    /\ UNCHANGED <<trans_data, out, files>>

\* ws['A1'] = value
AssignCell ==
    /\ InGenerator /\ Stmt.kind = "value"
    /\ Execute
\* ws['A1'].font = Font(...)
AssignFont ==
    /\ InGenerator /\ Stmt.kind = "font"
    /\ Execute
\* ws.merge_cells('A1:B1')
MergeCells ==
    /\ InGenerator /\ Stmt.kind = "merge"
    /\ Execute
\* one iteration of a header loop: the cell, its font and its fill
WriteHeader ==
    /\ InGenerator /\ Stmt.kind = "header"
    /\ Execute
\* one iteration of a loop styling an existing header row
StyleHeader ==
    /\ InGenerator /\ Stmt.kind = "style"
    /\ Execute
\* one iteration of a population loop: the cells of one row descriptor
PopulateRow ==
    /\ InGenerator /\ Stmt.kind = "row"
    /\ Execute
\* one iteration of the column-width loop: the columns of one sheet
AdjustWidths ==
    /\ InGenerator /\ Stmt.kind = "widths"
    /\ Execute

\* RandomSeed that leaves the PRNG as the interpreter started it
RandomSeed_Unseeded ==
    /\ InGenerator /\ Stmt.kind = "seed"
    /\ rng' = rng
    /\ Advance
    /\ UNCHANGED <<wb, trans_data, out, files>>

\* random.seed(42)
RandomSeed ==
    /\ InGenerator /\ Stmt.kind = "seed"
    /\ rng' = Seeded(Op.seed)
    /\ Advance
    /\ UNCHANGED <<wb, trans_data, out, files>>

\* trans_data.append([...]) of the initial-stock loop
AppendInitialStock ==
    /\ InGenerator /\ Stmt.kind = "append_initial"
    /\ trans_data' = Append(trans_data, InitialStockRow(Op.sku, rng))
    /\ rng' = NextRng(rng)
    /\ Advance
    /\ UNCHANGED <<wb, out, files>>

\* trans_data.append([...]) of the random-transaction loop: three draws
AppendRandomTransaction ==
    /\ InGenerator /\ Stmt.kind = "append_random"
    /\ trans_data' = Append(trans_data, RandomTransactionRow(Op.i, rng))
    /\ rng' = NextRng(NextRng(NextRng(rng)))
    /\ Advance
    /\ UNCHANGED <<wb, out, files>>

\* wb.save(name): the file is written into the working directory
WorkbookSave ==
    /\ InGenerator /\ Stmt.kind = "save"
    /\ files' = [files EXCEPT ![Op.file] = [state |-> "saved", dir |-> cwd, wb |-> wb]]
    /\ wb' = [wb EXCEPT !.saved = TRUE]
    /\ Advance
    /\ UNCHANGED <<trans_data, rng, out>>

\* print("Created ...")
ReportCreated ==
    /\ InGenerator /\ Stmt.kind = "print"
    /\ out' = out \o <<Op.file>>
    /\ Advance
    /\ UNCHANGED <<wb, trans_data, rng, files>>

\* the generator returns: its locals are gone
GeneratorReturn ==
    /\ pc = "gen" /\ ip > Len(Prog(cur))
    /\ wb' = NoWorkbook
    /\ trans_data' = <<>>
    /\ cur' = ""
    /\ ip' = 1
    /\ pc' = IF mode = "main" THEN "try" ELSE "caller"
    /\ gi' = IF mode = "main" THEN gi + 1 ELSE gi
    /\ UNCHANGED <<run, mode, installed, todo, rng, cwd, start_dir, out, files, prev, recalc>>

\* a call of the generator raises (an I/O error in save, MemoryError, ...):
\* the stack unwinds to main's except clause; a failing save may leave a
\* partial file behind
Raise ==
    /\ InGenerator /\ mode = "main"
    /\ \E partial \in BOOLEAN :
          files' = IF Stmt.kind = "save" /\ partial
                   THEN [files EXCEPT ![Op.file] = [state |-> "partial", dir |-> cwd, wb |-> NoWorkbook]]
                   ELSE files
    /\ wb' = NoWorkbook
    /\ trans_data' = <<>>
    /\ cur' = ""
    /\ ip' = 1
    /\ pc' = "except"
    /\ UNCHANGED <<run, mode, installed, gi, todo, rng, cwd, start_dir, out, prev, recalc>>

\* the script is run a second time, in a fresh process against a clean
\* output directory, after a full first run
Restart ==
    /\ pc = "exit" /\ run = 1 /\ mode = "main"
    /\ Len(out) > 0 /\ out[Len(out)] = "usage"
    /\ run' = 2
    /\ prev' = Left(files)
    /\ files' = CleanDir
    /\ rng' \in Entropy
    /\ cwd' \in {"elsewhere", "script_dir"}
    /\ start_dir' = cwd'
    /\ out' = <<>>
    /\ pc' = "import"
    /\ gi' = 1
    /\ recalc' = NoRecalc
    /\ UNCHANGED <<mode, installed, todo, cur, ip, wb, trans_data>>

(***************************************************************************)
(* Recalculation of a CurrentInventory status formula by the spreadsheet   *)
(* application that opens inventory-tracking.xlsx.                         *)
(***************************************************************************)
Rat(n, d) == [ok |-> TRUE, n |-> n, d |-> d]
NotANumber == [ok |-> FALSE, n |-> 0, d |-> 1]
RatMul(x, y) == [ok |-> x.ok /\ y.ok, n |-> x.n * y.n, d |-> x.d * y.d]
RatLeq(x, y) == x.n * y.d <= y.n * x.d

\* the number a reference of a CurrentInventory row stands for, given the
\* inputs: B is the current stock, C the reorder point, and the Settings
\* cell labelled 'Critical Stock Level (%)' holds in.quarters / 4; any other
\* Settings cell holds what the workbook w stores there
RefValue(w, tk, in) ==
    IF tk.t # "ref" THEN NotANumber
    ELSE IF tk.sheet = "" /\ tk.row = in.row /\ tk.col = "B" THEN Rat(in.b, 1)
    ELSE IF tk.sheet = "" /\ tk.row = in.row /\ tk.col = "C" THEN Rat(in.c, 1)
    ELSE IF tk.sheet = "Settings"
    THEN LET label == ValueAt(w, "Settings", tk.row, 1)
             stored == ValueAt(w, "Settings", tk.row, ColIndex(tk.col))
         IN IF tk.col = "B" /\ label = S("Critical Stock Level (%)") THEN Rat(in.quarters, 4)
            ELSE IF stored.k = "num" THEN Rat(stored.n, stored.d)
            ELSE IF stored.k = "none" THEN Rat(0, 1)
            ELSE NotANumber
    ELSE NotANumber

\* IF(<ref> <= <ref>[*<ref>], "<then>", <else>) with <else> a string literal
\* or a nested IF of the same shape, evaluated from token p on
RECURSIVE EvalIf(_, _, _, _)
EvalIf(w, toks, p, in) ==
    IF p > Len(toks) THEN "#ERROR"
    ELSE IF toks[p].t = "lit" THEN toks[p].s
    ELSE IF toks[p] \in {T("=IF("), T(", IF(")} /\ p + 7 <= Len(toks) /\ toks[p + 2] = T("<=")
    THEN LET lhs == RefValue(w, toks[p + 1], in)
             mul == toks[p + 4] = T("*")
             rhs == IF mul
                    THEN RatMul(RefValue(w, toks[p + 3], in), RefValue(w, toks[p + 5], in))
                    ELSE RefValue(w, toks[p + 3], in)
             q == IF mul THEN p + 6 ELSE p + 4
         IN IF ~(lhs.ok /\ rhs.ok) THEN "#VALUE!"
            ELSE IF ~(toks[q] = T(", ") /\ toks[q + 1].t = "lit") THEN "#ERROR"
            ELSE IF RatLeq(lhs, rhs) THEN toks[q + 1].s
            ELSE IF toks[q + 2] = T(", ") THEN EvalIf(w, toks, q + 3, in)
            ELSE EvalIf(w, toks, q + 2, in)
    ELSE "#ERROR"

\* the value the application shows in CurrentInventory!D<in.row>
StatusOf(w, in) ==
    LET v == ValueAt(w, "CurrentInventory", in.row, 4)
    IN IF v.k = "formula" THEN EvalIf(w, v.toks, 1, in) ELSE "#ERROR"

\* the file is opened once per run
Recalculate ==
    /\ pc = "exit"
    /\ recalc = NoRecalc
    /\ files["inventory-tracking.xlsx"].state = "saved"
    /\ \E r \in 2..6, b \in -1..MaxStock, c \in -1..MaxStock, q \in -1..MaxQuarter :
          LET in == [row |-> r, b |-> b, c |-> c, quarters |-> q]
          IN recalc' = [row |-> r, b |-> b, c |-> c, quarters |-> q,
                        result |-> StatusOf(files["inventory-tracking.xlsx"].wb, in)]
    /\ UNCHANGED <<run, mode, installed, pc, gi, todo, cur, ip, wb, trans_data, rng, cwd, start_dir,
                   out, files, prev>>

(***************************************************************************)
(* A second process that imports the module and calls the generators       *)
(* itself, in any order and any number of them.                            *)
(***************************************************************************)
RestartAsCaller ==
    /\ pc = "exit" /\ run = 1 /\ mode = "main"
    /\ Len(out) > 0 /\ out[Len(out)] = "usage"
    /\ run' = 2
    /\ mode' = "caller"
    /\ prev' = Left(files)
    /\ files' = CleanDir
    /\ rng' \in Entropy
    /\ out' = <<>>
    /\ pc' = "caller"
    /\ todo' = {Generators[i] : i \in 1..Len(Generators)}
    /\ recalc' = NoRecalc
    /\ UNCHANGED <<installed, gi, cur, ip, wb, trans_data, cwd, start_dir>>

CallAny ==
    /\ pc = "caller"
    /\ \E g \in todo :
          /\ cur' = g
          /\ todo' = todo \ {g}
    /\ ip' = 1
    /\ pc' = "gen"
    /\ UNCHANGED <<run, mode, installed, gi, wb, trans_data, rng, cwd, start_dir, out, files, prev, recalc>>

GeneratorStep ==
    \/ WorkbookNew
    \/ WorkbookRemoveActive
    \/ WorkbookCreateSheet
    \/ AssignCell
    \/ AssignFont
    \/ MergeCells
    \/ WriteHeader
    \/ StyleHeader
    \/ PopulateRow
    \/ AdjustWidths
    \/ RandomSeed
    \/ AppendInitialStock
    \/ AppendRandomTransaction
    \/ WorkbookSave
    \/ ReportCreated
    \/ GeneratorReturn

MainStep ==
    \/ ImportModule
    \/ MainCheck
    \/ Chdir
    \/ CallGenerator
    \/ ReportSuccess
    \/ Raise
    \/ HandleException

Next == MainStep \/ GeneratorStep \/ Recalculate \/ Restart

Spec == Init /\ [][Next]_vars

NextAny == MainStep \/ GeneratorStep \/ Recalculate \/ RestartAsCaller \/ CallAny

SpecAny == Init /\ [][NextAny]_vars

(***************************************************************************)
(* Vocabulary of the properties.                                           *)
(***************************************************************************)
Printed(tag) == \E i \in 1..Len(out) : out[i] = tag
IsSaved(f) == files[f].state = "saved"
\* the cell contents of a workbook: address -> value
Contents(w) == w.values
IsBlank(v) == v = None \/ v = S("")
IsLabel(v) == v.k = "str" /\ v.s # ""
\* every cell of the row is unwritten or holds the empty string
RowBlank(w, sh, r) == \A c \in 1..Len(Letters) : IsBlank(ValueAt(w, sh, r, c))

\* sheet titles and block titles
SectionLabels ==
    { "Loan Parameters", "Investment Parameters", "NPV/IRR Parameters", "Loan Analysis",
      "Amortization Schedule", "Investment Growth", "Project Analysis", "Sensitivity Analysis",
      "Analysis Parameters", "Basic Statistics", "Percentile Analysis", "Regional Analysis",
      "Executive Summary", "Data Quality Report", "Statistical Tests",
      "Inventory Settings", "Inventory Dashboard", "Performance Metrics" }
IsSectionLabel(v) == v.k = "str" /\ v.s \in SectionLabels

\* the sheets populated from (label, formula) rows
PairSheets == {"LoanCalculations", "InvestmentAnalysis", "Analysis", "Summary", "Reports"}

(***************************************************************************)
(* C1.  With openpyxl absent the run never ends in an uncaught import      *)
(* failure: it reaches main()'s availability check, prints the install     *)
(* diagnostic and returns without producing a file.                        *)
(***************************************************************************)
C1_MissingLibraryReported ==
    ~installed =>
        /\ pc # "crashed"
        /\ pc = "exit" => /\ Printed("not installed")
                          /\ Printed("pip install openpyxl")
                          /\ \A f \in FileNames : files[f].state = "absent"

(***************************************************************************)
(* C2.  An exception raised inside a generator is caught by main: the      *)
(* error and a trace are printed and main returns; no generator is started *)
(* afterwards, the success message is never printed, and the files saved   *)
(* by the earlier generators of the run stay as they are.                  *)
(***************************************************************************)
C2_FailureAborts ==
    /\ [][(pc = "gen" /\ pc' = "except")
            => \A f \in FileNames : IsSaved(f) => files'[f] = files[f]]_vars
    /\ [][pc = "except"
            => /\ pc' = "exit"
               /\ out' = out \o <<"error", "traceback">>
               /\ files' = files]_vars
    /\ [](Printed("error") => /\ Printed("traceback")
                              /\ pc = "exit"
                              /\ cur = ""
                              /\ ~Printed("success"))
    /\ [][(Printed("error") /\ run' = run) => files' = files]_vars

\* create_data_analysis has raised and main has returned: financial-model.xlsx
\* is still there, the later files are not
C2_Witness ==
    /\ pc = "exit"
    /\ Printed("error")
    /\ IsSaved("financial-model.xlsx")
    /\ ~IsSaved("data-analysis.xlsx")
    /\ ~IsSaved("inventory-tracking.xlsx")

(***************************************************************************)
(* C3.  Two full runs of main(), each in a fresh process against a clean   *)
(* output directory, write identical cell contents into all three          *)
(* workbooks, whatever entropy each interpreter started with.              *)
(***************************************************************************)
AllSaved == \A f \in FileNames : IsSaved(f)

C3_RunsIdentical ==
    (run = 2 /\ pc = "exit" /\ AllSaved)
        => \A f \in FileNames : Contents(files[f].wb) = prev[f].values

\* the second run has finished, with 100 RawData rows and 55 Transactions rows drawn
C3_Witness ==
    /\ run = 2 /\ pc = "exit" /\ AllSaved
    /\ ValueAt(files["data-analysis.xlsx"].wb, "RawData", 101, 1).k = "num"
    /\ ValueAt(files["inventory-tracking.xlsx"].wb, "Transactions", 56, 4).k = "num"
    /\ \A f \in FileNames : prev[f].state = "saved"

(***************************************************************************)
(* C4.  The cell contents a generator writes are the same for every order  *)
(* in which the generators are called, one of them called alone included.  *)
(***************************************************************************)
C4_OrderIndependent ==
    \A f \in FileNames :
        (IsSaved(f) /\ prev[f].state = "saved")
            => Contents(files[f].wb) = prev[f].values

(***************************************************************************)
(* C5.  In the saved financial model the formula of LoanCalculations!B2    *)
(* references LoanParameters!B2, B3 and B4 and no other LoanParameters     *)
(* cell, and these hold the annual rate 0.05, the term 30 and the          *)
(* principal 500000.                                                       *)
(***************************************************************************)
\* the references of a formula into a sheet, in the order of the formula
RefsInto(toks, sh) ==
    SelectSeq(toks, LAMBDA tk : tk.t \in {"ref", "range", "cols"} /\ tk.sheet = sh)

C5_LoanFormulaReferences ==
    IsSaved("financial-model.xlsx") =>
        LET w == files["financial-model.xlsx"].wb
            v == ValueAt(w, "LoanCalculations", 2, 2)
        IN /\ v.k = "formula"
           /\ RefsInto(v.toks, "LoanParameters")
                = << R("LoanParameters", "B", 2), R("LoanParameters", "B", 3),
                     R("LoanParameters", "B", 4) >>
           /\ ValueAt(w, "LoanParameters", 2, 1) = S("Annual Interest Rate")
           /\ ValueAt(w, "LoanParameters", 2, 2) = Q(5, 100)
           /\ ValueAt(w, "LoanParameters", 3, 1) = S("Loan Term (Years)")
           /\ ValueAt(w, "LoanParameters", 3, 2) = N(30)
           /\ ValueAt(w, "LoanParameters", 4, 1) = S("Loan Principal")
           /\ ValueAt(w, "LoanParameters", 4, 2) = N(500000)

C5_Witness ==
    /\ IsSaved("financial-model.xlsx")
    /\ ValueAt(files["financial-model.xlsx"].wb, "LoanCalculations", 2, 1) = S("Monthly Payment")
    /\ ValueAt(files["financial-model.xlsx"].wb, "LoanCalculations", 2, 2).k = "formula"

(***************************************************************************)
(* C6.  As stated: in every sheet populated from (label, formula) rows,    *)
(* every row whose column-1 label is a non-empty string has a non-empty    *)
(* value in column 2.                                                      *)
(***************************************************************************)
LabelledCells(w) ==
    {a \in DOMAIN w.values : a[1] \in PairSheets /\ a[3] = 1 /\ IsLabel(w.values[a])}

C6_EveryLabelHasValue ==
    \A f \in FileNames : IsSaved(f) =>
        \A a \in LabelledCells(files[f].wb) :
            ~IsBlank(ValueAt(files[f].wb, a[1], a[2], 2))

(***************************************************************************)
(* C6, amended.  In every sheet populated from (label, formula) rows,      *)
(* every row whose column-1 label is a non-empty string other than a sheet *)
(* title or block title has a non-empty value in column 2.                 *)
(***************************************************************************)
C6_EveryPlainLabelHasValue ==
    \A f \in FileNames : IsSaved(f) =>
        \A a \in LabelledCells(files[f].wb) :
            ~IsSectionLabel(files[f].wb.values[a])
                => ~IsBlank(ValueAt(files[f].wb, a[1], a[2], 2))

\* Reports is saved with the label 'Service Level (%)' next to its formula
\* and the block title 'Performance Metrics' next to an empty string
C6_Witness ==
    /\ IsSaved("inventory-tracking.xlsx")
    /\ ValueAt(files["inventory-tracking.xlsx"].wb, "Reports", 11, 1) = S("Service Level (%)")
    /\ ValueAt(files["inventory-tracking.xlsx"].wb, "Reports", 11, 2).k = "formula"
    /\ ValueAt(files["inventory-tracking.xlsx"].wb, "Reports", 8, 2) = S("")

(***************************************************************************)
(* C7.  In every generated sheet a section-header label is in row 1 or in  *)
(* a row whose preceding row is blank.                                     *)
(***************************************************************************)
SectionCells(w) == {a \in DOMAIN w.values : IsSectionLabel(w.values[a])}

C7_SectionAfterBlankRow ==
    \A f \in FileNames : IsSaved(f) =>
        \A a \in SectionCells(files[f].wb) :
            a[2] = 1 \/ RowBlank(files[f].wb, a[1], a[2] - 1)

\* Summary is saved with 'Statistical Tests' in row 11 under the spacer row 10
C7_Witness ==
    /\ IsSaved("data-analysis.xlsx")
    /\ ValueAt(files["data-analysis.xlsx"].wb, "Summary", 11, 1) = S("Statistical Tests")
    /\ ValueAt(files["data-analysis.xlsx"].wb, "Summary", 10, 1) = S("")
    /\ ValueAt(files["data-analysis.xlsx"].wb, "Summary", 9, 1) = S("Data Completeness (%)")

(***************************************************************************)
(* The population loops: the sheet a loop writes, the row R of its first   *)
(* descriptor and the number N of its descriptors.                         *)
(***************************************************************************)
Loop(name, file, sh, start, n) ==
    [loop |-> name, file |-> file, sheet |-> sh, start |-> start, n |-> n]

PopulationLoops ==
    { Loop("fm.params_data", "financial-model.xlsx", "LoanParameters", fm_params_start,
           Len(fm_params_data)),
      Loop("fm.cash_flow_data", "financial-model.xlsx", "CashFlows", 2, Len(cash_flow_data)),
      Loop("fm.loan_calc_formulas", "financial-model.xlsx", "LoanCalculations", 2,
           Len(loan_calc_formulas)),
      Loop("fm.investment_formulas", "financial-model.xlsx", "InvestmentAnalysis", 2,
           Len(investment_formulas)),
      Loop("fm.sensitivity_data", "financial-model.xlsx", "InvestmentAnalysis", 15,
           Len(sensitivity_data)),
      Loop("da.raw_rows", "data-analysis.xlsx", "RawData", da_first_row,
           da_end_row - da_first_row),
      Loop("da.params_data", "data-analysis.xlsx", "Parameters", 2, Len(da_params_data)),
      Loop("da.basic_stats", "data-analysis.xlsx", "Analysis", 2, Len(basic_stats)),
      Loop("da.percentiles", "data-analysis.xlsx", "Analysis", 13, Len(percentiles)),
      Loop("da.regions", "data-analysis.xlsx", "Analysis", 26, Len(regions)),
      Loop("da.summary_data", "data-analysis.xlsx", "Summary", 2, Len(summary_data)),
      Loop("it.product_data", "inventory-tracking.xlsx", "Products", 2, Len(product_data)),
      Loop("it.trans_data", "inventory-tracking.xlsx", "Transactions", 2,
           Len(it_skus) + it_random_count),
      Loop("it.settings_data", "inventory-tracking.xlsx", "Settings", 2, Len(settings_data)),
      Loop("it.inventory", "inventory-tracking.xlsx", "CurrentInventory", 2, Len(it_skus)),
      Loop("it.alert_types", "inventory-tracking.xlsx", "Alerts", 2, Len(alert_types)),
      Loop("it.report_data", "inventory-tracking.xlsx", "Reports", 2, Len(report_data)) }

\* the workbooks there are: the one being built and the saved ones
Workbooks == {wb} \cup {files[f].wb : f \in {g \in FileNames : IsSaved(g)}}

(***************************************************************************)
(* C8.  A population loop of N row descriptors starting at row R writes    *)
(* descriptor k (k = 0..N-1) into row R+k of its sheet and into no other   *)
(* row, so no two descriptors of a loop share a row; in the saved workbook *)
(* every descriptor, the blank ones included, has been written, so the     *)
(* loop occupies exactly rows R..R+N-1.                                    *)
(***************************************************************************)
C8_DescriptorRows ==
    /\ \A w \in Workbooks : \A a \in DOMAIN w.rows : \A d \in w.rows[a] :
          \E l \in PopulationLoops :
             /\ l.loop = d[1]
             /\ l.sheet = a[1]
             /\ d[2] \in 0..(l.n - 1)
             /\ a[2] = l.start + d[2]
    /\ \A l \in PopulationLoops : IsSaved(l.file) =>
          \A k \in 0..(l.n - 1) :
             /\ <<l.loop, k>> \in WritersOf(files[l.file].wb, l.sheet, l.start + k)
             /\ <<l.sheet, l.start + k, 1>> \in DOMAIN files[l.file].wb.values

\* the financial model is saved: the blank descriptor 3 of params_data is in
\* row 5, the last descriptor 15 in row 17, the blank descriptor 4 of
\* investment_formulas in row 6
C8_Witness ==
    /\ IsSaved("financial-model.xlsx")
    /\ WritersOf(files["financial-model.xlsx"].wb, "LoanParameters", 5) = {<<"fm.params_data", 3>>}
    /\ ValueAt(files["financial-model.xlsx"].wb, "LoanParameters", 5, 1) = S("")
    /\ WritersOf(files["financial-model.xlsx"].wb, "LoanParameters", 17) = {<<"fm.params_data", 15>>}
    /\ WritersOf(files["financial-model.xlsx"].wb, "CashFlows", 12) = {<<"fm.cash_flow_data", 10>>}
    /\ WritersOf(files["financial-model.xlsx"].wb, "InvestmentAnalysis", 6)
         = {<<"fm.investment_formulas", 4>>}

(***************************************************************************)
(* The column-header rows: sheet, row and the declared header texts.       *)
(***************************************************************************)
HeaderRow(file, sh, r, headers) == [file |-> file, sheet |-> sh, row |-> r, headers |-> headers]

HeaderRows ==
    { HeaderRow("financial-model.xlsx", "CashFlows", 1,
                <<"Period", "Cash Flow (NPV)", "Cash Flow (IRR)">>),
      HeaderRow("financial-model.xlsx", "LoanCalculations", 8,
                <<"Month", "Principal", "Interest", "Balance">>),
      HeaderRow("financial-model.xlsx", "InvestmentAnalysis", 14,
                <<"Discount Rate", "NPV", "Decision">>),
      HeaderRow("data-analysis.xlsx", "RawData", 1, da_headers),
      HeaderRow("data-analysis.xlsx", "Analysis", 25, <<"Region", "Count", "Average", "Total">>),
      HeaderRow("inventory-tracking.xlsx", "Products", 1, product_headers),
      HeaderRow("inventory-tracking.xlsx", "Transactions", 1, trans_headers),
      HeaderRow("inventory-tracking.xlsx", "CurrentInventory", 1, inv_headers),
      HeaderRow("inventory-tracking.xlsx", "Alerts", 1, alert_headers) }

\* a bold font together with the solid fill
HasHeaderStyle(w, sh, r, c) ==
    /\ FontAt(w, sh, r, c).bold
    /\ FillAt(w, sh, r, c).fill_type = "solid"

(***************************************************************************)
(* C9.  In the saved workbooks the header texts of every column-header row *)
(* fill columns 1..L of the row, L the length of the declared header list, *)
(* each of these cells carries the header style (bold font and solid       *)
(* fill), and no cell outside a header row carries it.                     *)
(***************************************************************************)
C9_HeaderRowsStyled ==
    /\ \A h \in HeaderRows : IsSaved(h.file) =>
          LET w == files[h.file].wb
          IN /\ \A c \in 1..Len(h.headers) :
                   /\ ValueAt(w, h.sheet, h.row, c) = S(h.headers[c])
                   /\ HasHeaderStyle(w, h.sheet, h.row, c)
             /\ <<h.sheet, h.row, Len(h.headers) + 1>> \notin DOMAIN w.values
    /\ \A f \in FileNames : IsSaved(f) =>
          \A a \in DOMAIN files[f].wb.values :
             HasHeaderStyle(files[f].wb, a[1], a[2], a[3])
                => \E h \in HeaderRows :
                      /\ h.file = f /\ h.sheet = a[1] /\ h.row = a[2]
                      /\ a[3] \in 1..Len(h.headers)

\* the inventory workbook is saved: the sixth Alerts header is styled, the
\* bold label under it is not filled
C9_Witness ==
    /\ IsSaved("inventory-tracking.xlsx")
    /\ ValueAt(files["inventory-tracking.xlsx"].wb, "Alerts", 1, 6) = S("Date")
    /\ HasHeaderStyle(files["inventory-tracking.xlsx"].wb, "Alerts", 1, 6)
    /\ HasHeaderStyle(files["inventory-tracking.xlsx"].wb, "CurrentInventory", 1, 10)
    /\ FontAt(files["inventory-tracking.xlsx"].wb, "Settings", 2, 1).bold
    /\ ~HasHeaderStyle(files["inventory-tracking.xlsx"].wb, "Settings", 2, 1)

(***************************************************************************)
(* C10.  Recalculated for any stock level, reorder point and critical      *)
(* fraction, the status formula of CurrentInventory rows 2..6 yields one   *)
(* of CRITICAL, REORDER, OK and nothing else; the only Settings cell the   *)
(* formula reads is B9, and row 9 of Settings is the row of the            *)
(* 'Critical Stock Level (%)' setting.                                     *)
(***************************************************************************)
C10_StatusOneOfThree ==
    /\ recalc # NoRecalc => recalc.result \in {"CRITICAL", "REORDER", "OK"}
    /\ IsSaved("inventory-tracking.xlsx") =>
          LET w == files["inventory-tracking.xlsx"].wb
          IN /\ ValueAt(w, "Settings", 9, 1) = S("Critical Stock Level (%)")
             /\ ValueAt(w, "Settings", 9, 2) = Q(25, 100)
             /\ \A r \in 2..6 :
                   /\ ValueAt(w, "CurrentInventory", r, 4).k = "formula"
                   /\ RefsInto(ValueAt(w, "CurrentInventory", r, 4).toks, "Settings")
                        = <<R("Settings", "B", 9)>>

\* row 4 recalculated with stock 1, reorder point 1 and fraction 2/4: above
\* the critical level, not above the reorder point
C10_Witness ==
    /\ recalc.row = 4 /\ recalc.b = 1 /\ recalc.c = 1 /\ recalc.quarters = 2
    /\ recalc.result = "REORDER"

(***************************************************************************)
(* C11.  In a run of main() every step of a generator, the save included,  *)
(* is taken with the script's directory as working directory, and every    *)
(* file written (saved or left partial) is in the script's directory,      *)
(* whatever directory the process was started in.                          *)
(***************************************************************************)
C11_SavedInScriptDir ==
    /\ (pc \in {"try", "gen", "except"} /\ mode = "main") => cwd = "script_dir"
    /\ \A f \in FileNames : files[f].state # "absent" => files[f].dir = "script_dir"

\* a process started in another directory has saved all three workbooks
C11_Witness ==
    /\ start_dir = "elsewhere"
    /\ \A f \in FileNames : IsSaved(f) /\ files[f].dir = "script_dir"

(***************************************************************************)
(* The cells a formula references by address, and whether a write finds    *)
(* them in the workbook.                                                   *)
(***************************************************************************)
\* the sheet a token names; a reference without a sheet is to the sheet own
SheetOf(tk, own) == IF tk.sheet = "" THEN own ELSE tk.sheet

\* the cells of a single-cell reference or a bounded range
RefCells(tk, own) ==
    CASE tk.t = "ref" -> {<<SheetOf(tk, own), tk.row, ColIndex(tk.col)>>}
      [] tk.t = "range" -> {<<SheetOf(tk, own), r, c>> :
                               r \in tk.row..tk.row2, c \in ColIndex(tk.col)..ColIndex(tk.col2)}
      [] OTHER -> {}

IsWritten(w, a) == a \in DOMAIN w.values /\ w.values[a] # None

\* value v can be written into sheet own of w: if it is a formula, its sheets
\* exist and its referenced cells are written
FormulaReady(w, own, v) ==
    v.k = "formula" =>
        \A i \in 1..Len(v.toks) :
            v.toks[i].t \in {"ref", "range", "cols"} =>
                /\ \E n \in 1..Len(w.sheets) : w.sheets[n] = SheetOf(v.toks[i], own)
                /\ \A a \in RefCells(v.toks[i], own) : IsWritten(w, a)

\* every write among the calls finds its references when it is made, the
\* calls made in order on workbook w
RECURSIVE WritesReady(_, _, _, _)
WritesReady(w, calls, x, td) ==
    \/ calls = <<>>
    \/ /\ Head(calls).op = "value"
            => FormulaReady(w, Head(calls).sheet, Resolve(Head(calls).val, x, td))
       /\ WritesReady(Call(w, Head(calls), x, td), Tail(calls), RngAfter(Head(calls), x), td)

(***************************************************************************)
(* C12.  Whenever a generator is about to make a step, every formula the   *)
(* step writes finds, at the moment of its write, the sheets it names in   *)
(* the workbook and every cell it references by address already written.   *)
(***************************************************************************)
C12_FormulaAfterReferences ==
    InGenerator => WritesReady(wb, Stmt.calls, rng, trans_data)

(***************************************************************************)
(* C13.  In the saved workbooks every section-header label is in column 1, *)
(* its cell carries the section font (bold, size 12 or 14) and a merged    *)
(* range starting at column 1 of its row is registered.                    *)
(***************************************************************************)
IsSectionFont(f) == f.bold /\ f.size \in {12, 14}
MergedFrom(w, sh, r) == \E m \in w.merges : m[1] = sh /\ m[2] = r /\ m[3] = 1

WrittenAsSection(w, a) ==
    /\ a[3] = 1
    /\ IsSectionFont(FontAt(w, a[1], a[2], a[3]))
    /\ MergedFrom(w, a[1], a[2])

C13_SectionHeadersStyled ==
    \A f \in FileNames : IsSaved(f) =>
        \A a \in SectionCells(files[f].wb) : WrittenAsSection(files[f].wb, a)

(***************************************************************************)
(* The sheets and the file of each generator.                              *)
(***************************************************************************)
GeneratorSheets(g) ==
    CASE g = "create_financial_model" -> fm_sheets
      [] g = "create_data_analysis" -> da_sheets
      [] g = "create_inventory_tracking" -> it_sheets
      [] OTHER -> <<>>

GeneratorFile(g) ==
    CASE g = "create_financial_model" -> "financial-model.xlsx"
      [] g = "create_data_analysis" -> "data-analysis.xlsx"
      [] OTHER -> "inventory-tracking.xlsx"

\* nothing but sheets has been put into the workbook
Unpopulated(w) ==
    /\ DOMAIN w.values = {} /\ DOMAIN w.fonts = {} /\ DOMAIN w.fills = {}
    /\ w.merges = {} /\ w.widths = {}

Distinct(seq) == \A i, j \in 1..Len(seq) : seq[i] = seq[j] => i = j
IsPrefix(p, seq) == Len(p) <= Len(seq) /\ \A i \in 1..Len(p) : p[i] = seq[i]

(***************************************************************************)
(* C14.  In each generator the default sheet is gone before a named sheet  *)
(* is created; the named sheets are created in the order of the source,    *)
(* pairwise distinct, and all of them before anything is written; once the *)
(* workbook is saved it is not mutated any more, and the saved workbook    *)
(* holds exactly the named sheets in creation order.                       *)
(***************************************************************************)
C14_WorkbookLifecycle ==
    /\ cur # "" =>
          /\ wb.sheets # <<>> =>
                \/ wb.sheets = <<"Sheet">>
                \/ IsPrefix(wb.sheets, GeneratorSheets(cur))
          /\ ~Unpopulated(wb) => wb.sheets = GeneratorSheets(cur)
          /\ wb.saved =>
                /\ IsSaved(GeneratorFile(cur))
                /\ files[GeneratorFile(cur)].wb = [wb EXCEPT !.saved = FALSE]
    /\ \A i \in 1..Len(Generators) :
          /\ Distinct(GeneratorSheets(Generators[i]))
          /\ IsSaved(GeneratorFile(Generators[i]))
                => files[GeneratorFile(Generators[i])].wb.sheets = GeneratorSheets(Generators[i])

\* create_inventory_tracking has saved its workbook of six sheets and is
\* about to print its confirmation
C14_Witness ==
    /\ pc = "gen" /\ cur = "create_inventory_tracking"
    /\ wb.saved
    /\ InGenerator /\ Stmt.kind = "print"
    /\ files["inventory-tracking.xlsx"].wb.sheets = it_sheets
    /\ ~Unpopulated(files["inventory-tracking.xlsx"].wb)

====
